---- MODULE Spec2Model ----
(***************************************************************************)
(* A model of jupyter2report (src/main.py): the selection of tagged cells, *)
(* the extraction of the first PNG payload, the positional pairing of      *)
(* captions and charts into report items, and the run of main() with its   *)
(* validation, its two file handles and its exit code.                     *)
(*                                                                         *)
(* JSON objects are records; a key that is absent is a field that is not   *)
(* in the record's DOMAIN.  JSON null in the place of an object is the     *)
(* record None.  JSON lists are sequences, JSON strings are strings.       *)
(* The key 'image/png' is written image_png.                               *)
(***************************************************************************)
EXTENDS Integers, Sequences, FiniteSets, TLC

\* Longest document (number of cells) the runs are drawn from.
MaxCells == 4

(***************************************************************************)
(* Python values and dictionary access                                     *)
(***************************************************************************)

\* json.load's value for JSON null.
None == [null |-> TRUE]

IsNone(v) == DOMAIN v = {"null"}

\* The default {} of cell.get('metadata', {}) and output.get('data', {}).
EmptyDict == [k \in {} |-> TRUE]

\* d.get(k, default) on a dictionary d.
Get(d, k, default) == IF k \in DOMAIN d THEN d[k] ELSE default

\* x in seq, for a Python list.
InList(x, seq) == \E j \in DOMAIN seq : seq[j] = x

\* What an uncaught AttributeError / TypeError leaves of extract_tagged_cells.
SelectRaised == [raised |-> TRUE, caption_cells |-> <<>>, chart_cells |-> <<>>]

(***************************************************************************)
(* extract_tagged_cells: one left-to-right scan, `if ... elif ...`.        *)
(***************************************************************************)
\* ScanCells with the caption branch testing the tag alone.
RECURSIVE ScanCells_TagOnly(_, _, _, _)
ScanCells_TagOnly(cells, i, caption_cells, chart_cells) ==
    IF i > Len(cells)
    THEN [raised |-> FALSE, caption_cells |-> caption_cells,
          chart_cells |-> chart_cells]
    ELSE LET cell == cells[i]
             metadata == Get(cell, "metadata", EmptyDict)
         IN  IF IsNone(metadata)
             THEN SelectRaised
             ELSE LET tags == Get(metadata, "tags", <<>>)
                      cell_type == Get(cell, "cell_type", "None")
                  IN  IF InList("caption", tags)
                      THEN ScanCells_TagOnly(cells, i + 1,
                               Append(caption_cells, cell), chart_cells)
                      ELSE IF InList("chart", tags) /\ cell_type = "code"
                      THEN ScanCells_TagOnly(cells, i + 1,
                               caption_cells, Append(chart_cells, cell))
                      ELSE ScanCells_TagOnly(cells, i + 1,
                               caption_cells, chart_cells)

\* ScanCells skipping a cell equal to one already selected.
RECURSIVE ScanCells_Dedup(_, _, _, _)
ScanCells_Dedup(cells, i, caption_cells, chart_cells) ==
    IF i > Len(cells)
    THEN [raised |-> FALSE, caption_cells |-> caption_cells,
          chart_cells |-> chart_cells]
    ELSE LET cell == cells[i]
             metadata == Get(cell, "metadata", EmptyDict)
         IN  IF IsNone(metadata)
             THEN SelectRaised
             ELSE LET tags == Get(metadata, "tags", <<>>)
                      cell_type == Get(cell, "cell_type", "None")
                  IN  IF InList("caption", tags) /\ cell_type = "markdown"
                      THEN ScanCells_Dedup(cells, i + 1,
                               IF InList(cell, caption_cells)
                               THEN caption_cells
                               ELSE Append(caption_cells, cell), chart_cells)
                      ELSE IF InList("chart", tags) /\ cell_type = "code"
                      THEN ScanCells_Dedup(cells, i + 1, caption_cells,
                               IF InList(cell, chart_cells)
                               THEN chart_cells
                               ELSE Append(chart_cells, cell))
                      ELSE ScanCells_Dedup(cells, i + 1,
                               caption_cells, chart_cells)

\* ScanCells with two independent `if`s that test the tags alone.
RECURSIVE ScanCells_TwoIfs(_, _, _, _)
ScanCells_TwoIfs(cells, i, caption_cells, chart_cells) ==
    IF i > Len(cells)
    THEN [raised |-> FALSE, caption_cells |-> caption_cells,
          chart_cells |-> chart_cells]
    ELSE LET cell == cells[i]
             metadata == Get(cell, "metadata", EmptyDict)
         IN  IF IsNone(metadata)
             THEN SelectRaised
             ELSE LET tags == Get(metadata, "tags", <<>>)
                  IN  ScanCells_TwoIfs(cells, i + 1,
                          IF InList("caption", tags)
                          THEN Append(caption_cells, cell) ELSE caption_cells,
                          IF InList("chart", tags)
                          THEN Append(chart_cells, cell) ELSE chart_cells)

\* ScanCells indexing cell['metadata']['tags']: a KeyError when absent.
RECURSIVE ScanCells_KeyError(_, _, _, _)
ScanCells_KeyError(cells, i, caption_cells, chart_cells) ==
    IF i > Len(cells)
    THEN [raised |-> FALSE, caption_cells |-> caption_cells,
          chart_cells |-> chart_cells]
    ELSE LET cell == cells[i]
         IN  IF "metadata" \notin DOMAIN cell
             THEN SelectRaised
             ELSE IF IsNone(cell.metadata) \/ "tags" \notin DOMAIN cell.metadata
             THEN SelectRaised
             ELSE LET tags == cell.metadata.tags
                      cell_type == Get(cell, "cell_type", "None")
                  IN  IF InList("caption", tags) /\ cell_type = "markdown"
                      THEN ScanCells_KeyError(cells, i + 1,
                               Append(caption_cells, cell), chart_cells)
                      ELSE IF InList("chart", tags) /\ cell_type = "code"
                      THEN ScanCells_KeyError(cells, i + 1,
                               caption_cells, Append(chart_cells, cell))
                      ELSE ScanCells_KeyError(cells, i + 1,
                               caption_cells, chart_cells)

RECURSIVE ScanCells(_, _, _, _)
ScanCells(cells, i, caption_cells, chart_cells) ==
    IF i > Len(cells)
    THEN [raised |-> FALSE, caption_cells |-> caption_cells,
          chart_cells |-> chart_cells]
    ELSE LET cell == cells[i]
             metadata == Get(cell, "metadata", EmptyDict)
         IN  IF IsNone(metadata)
             THEN SelectRaised   \* None has no attribute 'get'
             ELSE LET tags == Get(metadata, "tags", <<>>)
                      cell_type == Get(cell, "cell_type", "None")
                  IN  IF InList("caption", tags) /\ cell_type = "markdown"
                      THEN ScanCells(cells, i + 1,
                                     Append(caption_cells, cell), chart_cells)
                      ELSE IF InList("chart", tags) /\ cell_type = "code"
                      THEN ScanCells(cells, i + 1,
                                     caption_cells, Append(chart_cells, cell))
                      ELSE ScanCells(cells, i + 1, caption_cells, chart_cells)

extract_tagged_cells(notebook) ==
    IF IsNone(notebook)
    THEN SelectRaised            \* None has no attribute 'get'
    ELSE ScanCells(Get(notebook, "cells", <<>>), 1, <<>>, <<>>)

(***************************************************************************)
(* markdown_to_html: markdown.Markdown(...).convert on the texts the       *)
(* documents below carry.  The empty text converts to the empty fragment.  *)
(***************************************************************************)
markdown_to_html(markdown_text) ==
    CASE markdown_text = "" -> ""
      [] markdown_text = "# Title" -> "<h1>Title</h1>"
      [] OTHER -> "<p>" \o markdown_text \o "</p>"

\* ''.join(lines)
RECURSIVE Join(_)
Join(lines) == IF lines = <<>> THEN "" ELSE Head(lines) \o Join(Tail(lines))

(***************************************************************************)
(* extract_image_from_cell: first output whose data has 'image/png'.       *)
(***************************************************************************)
\* The outcome of an uncaught TypeError inside extract_image_from_cell.
ImageRaised == "<TypeError>"

\* ScanOutputs keeping the last 'image/png' payload instead of the first.
RECURSIVE ScanOutputs_Last(_, _)
ScanOutputs_Last(outputs, j) ==
    IF j > Len(outputs)
    THEN ""
    ELSE LET data == Get(outputs[j], "data", EmptyDict)
             later == ScanOutputs_Last(outputs, j + 1)
         IN  IF IsNone(data)
             THEN ImageRaised
             ELSE IF "image_png" \in DOMAIN data /\ later = ""
                  THEN data["image_png"]
                  ELSE later

RECURSIVE ScanOutputs(_, _)
ScanOutputs(outputs, j) ==
    IF j > Len(outputs)
    THEN ""
    ELSE LET data == Get(outputs[j], "data", EmptyDict)
         IN  IF IsNone(data)
             THEN ImageRaised    \* 'image/png' in None
             ELSE IF "image_png" \in DOMAIN data
                  THEN data["image_png"]
                  ELSE ScanOutputs(outputs, j + 1)

extract_image_from_cell(cell) == ScanOutputs(Get(cell, "outputs", <<>>), 1)

(***************************************************************************)
(* generate_html.  A report item is the tuple of the pieces of item_html:  *)
(* positions CaptionSlot and ChartSlot hold {caption_html} and {chart_html}*)
(* and the other positions are the fixed markup around them.               *)
(***************************************************************************)
ItemOpen == "<div class=\"report-item\">"
CaptionOpen == "<div class=\"caption\">"
ChartOpen == "<div class=\"chart\">"
DivClose == "</div>"

\* html_template up to {content}, and after it.
HtmlHead == "<!DOCTYPE html><html lang=\"en\"><head>...</head><body><h1>Notebook Report</h1>"
HtmlTail == "</body></html>"

\* f'<img src="data:image/png;base64,{image_data}" alt="Chart {i+1}" />'
ImgTag(image_data, i) ==
    "<img src=\"data:image/png;base64," \o image_data
        \o "\" alt=\"Chart " \o ToString(i + 1) \o "\" />"

\* The positions of {caption_html} and {chart_html} among the pieces.
CaptionSlot == 3
ChartSlot == 6

item_html(caption_html, chart_html) ==
    << ItemOpen, CaptionOpen, caption_html, DivClose,
       ChartOpen, chart_html, DivClose, DivClose >>

\* '\n'.join(content_items), as the sequence of the pieces.
RECURSIVE JoinItems(_)
JoinItems(items) ==
    IF items = <<>> THEN <<>>
    ELSE IF Len(items) = 1 THEN Head(items)
    ELSE Head(items) \o <<"\n">> \o JoinItems(Tail(items))

\* html_template.format(content='\n'.join(content_items))
format_template(content_items) ==
    <<HtmlHead>> \o JoinItems(content_items) \o <<HtmlTail>>

\* max_items as zip() would pair: the shorter length.
max_items_Min(caption_cells, chart_cells) ==
    IF Len(caption_cells) <= Len(chart_cells)
    THEN Len(caption_cells) ELSE Len(chart_cells)

\* max(len(caption_cells), len(chart_cells))
max_items(caption_cells, chart_cells) ==
    IF Len(caption_cells) >= Len(chart_cells)
    THEN Len(caption_cells) ELSE Len(chart_cells)

\* "Get caption if available"; i is the Python (0-based) loop index.
caption_html_at(caption_cells, i) ==
    IF i < Len(caption_cells)
    THEN markdown_to_html(Join(Get(caption_cells[i + 1], "source", <<>>)))
    ELSE ""

\* "Get chart if available": the value of image_data after the `if`.
image_data_at(chart_cells, i) ==
    IF i < Len(chart_cells)
    THEN extract_image_from_cell(chart_cells[i + 1])
    ELSE ""

\* chart_html_of without the `if image_data:` guard.
chart_html_of_NoGuard(image_data, i) == ImgTag(image_data, i)

\* `if image_data:` guards the <img> element.
chart_html_of(image_data, i) ==
    IF image_data # "" THEN ImgTag(image_data, i) ELSE ""

(***************************************************************************)
(* The inputs of a run: the notebook file's content and the command line.  *)
(***************************************************************************)
PngA == [data |-> [image_png |-> "AAAA"]]
PngB == [data |-> [image_png |-> "BBBB"]]

CellPool ==
    { [cell_type |-> "markdown", metadata |-> [tags |-> <<"caption">>],
       source |-> <<"# ", "Title">>],
      [cell_type |-> "markdown", metadata |-> [tags |-> <<"caption", "chart">>]],
      [cell_type |-> "markdown", source |-> <<"hi">>],
      [cell_type |-> "code", metadata |-> [tags |-> <<"chart">>],
       outputs |-> << [output_type |-> "stream"],
                      [data |-> [text_plain |-> "t"]], PngA, PngB >>],
      [cell_type |-> "code", metadata |-> [tags |-> <<"chart", "caption">>]],
      [cell_type |-> "raw", metadata |-> [collapsed |-> FALSE],
       outputs |-> <<PngB>>],
      [metadata |-> [tags |-> <<"chart", "caption">>], source |-> <<"x">>],
      [cell_type |-> "markdown", metadata |-> None],
      [cell_type |-> "code", metadata |-> [tags |-> <<"chart">>],
       outputs |-> << [data |-> None] >>] }

CellLists(n) == UNION { [1..m -> CellPool] : m \in 0..n }

\* What json.load can return for the notebook file.
Notebooks(n) ==
    { [cells |-> cells] : cells \in CellLists(n) } \cup { [nbformat |-> 4], None }

\* A path is its name followed by its suffix.
NbPath == <<"nb", ".ipynb">>
TxtPath == <<"notebook", ".txt">>
BadPath == <<"bad", ".ipynb">>
MissingPath == <<"missing", ".ipynb">>
DefaultOutput == <<"report", ".html">>
OutPath == <<"out", ".html">>
DirPath == <<"outdir", "">>
Paths == {NbPath, TxtPath, BadPath, MissingPath, DefaultOutput, OutPath, DirPath}

Program == <<"main", ".py">>

\* Command lines that reach the report, and the others (validation fails,
\* the notebook is not JSON, or the output path cannot be opened).
ReportArgvs ==
    { <<Program, NbPath>>,
      <<Program, NbPath, OutPath>> }

OtherArgvs ==
    { <<Program>>,
      <<Program, MissingPath>>,
      <<Program, MissingPath, OutPath>>,
      <<Program, TxtPath>>,
      <<Program, TxtPath, OutPath>>,
      <<Program, BadPath, OutPath>>,
      <<Program, NbPath, DirPath>> }

Absent == [kind |-> "absent"]
OldReport == [kind |-> "text", text |-> "old report"]

\* The file system before the run, the notebook file holding nb.
InitialFs(nb) ==
    [p \in Paths |->
        CASE p = NbPath -> [kind |-> "json", value |-> nb]
          [] p = TxtPath -> [kind |-> "json", value |-> nb]
          [] p = BadPath -> [kind |-> "text", text |-> "{not json"]
          [] p = OutPath -> OldReport
          [] p = DirPath -> [kind |-> "dir"]
          [] OTHER -> Absent]

\* exists() answering True for any path.
exists_Always(files, p) == TRUE

\* Path(p).exists()
exists(files, p) == files[p].kind # "absent"

\* endswith_ipynb accepting any path that has a suffix.
endswith_ipynb_Any(p) == p[Len(p)] # ""

\* p.endswith('.ipynb')
endswith_ipynb(p) == p[Len(p)] = ".ipynb"

(***************************************************************************)
(* main()                                                                  *)
(***************************************************************************)
VARIABLES
    argv,           \* sys.argv
    fs,             \* the file system: path -> file
    pc,             \* where main() is
    exit_code,      \* the process's exit status, -1 while it runs
    stdout,         \* the lines printed
    stderr,         \* the traceback of an uncaught exception
    notebook_path, output_path,
    in_handle,      \* the file object of load_notebook's `with`
    out_handle,     \* the file object of main's `with`
    exc,            \* the exception raised inside load_notebook's `with`
    notebook, caption_cells, chart_cells,
    i, image_data, content_items,   \* generate_html's loop
    html_output

vars == << argv, fs, pc, exit_code, stdout, stderr, notebook_path, output_path,
           in_handle, out_handle, exc, notebook, caption_cells, chart_cells,
           i, image_data, content_items, html_output >>

io == << stdout, stderr >>
paths == << notebook_path, output_path >>
handles == << in_handle, out_handle >>
selection == << caption_cells, chart_cells >>
loop == << i, image_data, content_items >>

Init ==
    /\ \/ /\ argv \in ReportArgvs
          /\ \E nb \in Notebooks(MaxCells) : fs = InitialFs(nb)
       \/ /\ argv \in OtherArgvs
          /\ \E nb \in Notebooks(1) : fs = InitialFs(nb)
    /\ pc = "start"
    /\ exit_code = -1
    /\ stdout = <<>>
    /\ stderr = <<>>
    /\ notebook_path = <<>>
    /\ output_path = <<>>
    /\ in_handle = "unopened"
    /\ out_handle = "unopened"
    /\ exc = ""
    /\ notebook = EmptyDict
    /\ caption_cells = <<>>
    /\ chart_cells = <<>>
    /\ i = 0
    /\ image_data = ""
    /\ content_items = <<>>
    /\ html_output = <<>>

\* sys.exit(1) after a printed message.
Exit1(message) ==
    /\ stdout' = Append(stdout, message)
    /\ exit_code' = 1
    /\ pc' = "exited"
    /\ UNCHANGED stderr

\* An uncaught exception: traceback on stderr, exit status 1.
Uncaught(name) ==
    /\ stderr' = Append(stderr, <<"Traceback (most recent call last):", name>>)
    /\ exit_code' = 1
    /\ pc' = "exited"

\* if len(sys.argv) < 2: usage, exit 1
Usage ==
    /\ pc = "start"
    /\ Len(argv) < 2
    /\ Exit1(<<"Usage: python main.py <notebook_file.ipynb> [output.html]">>)
    /\ UNCHANGED << argv, fs, paths, handles, exc, notebook, selection, loop,
                    html_output >>

ReadArgs ==
    /\ pc = "start"
    /\ Len(argv) >= 2
    /\ notebook_path' = argv[2]
    /\ output_path' = IF Len(argv) > 2 THEN argv[3] ELSE DefaultOutput
    /\ pc' = "validate"
    /\ UNCHANGED << argv, fs, exit_code, io, handles, exc, notebook, selection,
                    loop, html_output >>

NotFound ==
    /\ pc = "validate"
    /\ ~exists(fs, notebook_path)
    /\ Exit1(<<"Error: File not found: ">> \o notebook_path)
    /\ UNCHANGED << argv, fs, paths, handles, exc, notebook, selection, loop,
                    html_output >>

BadExtension ==
    /\ pc = "validate"
    /\ exists(fs, notebook_path)
    /\ ~endswith_ipynb(notebook_path)
    /\ Exit1(<<"Error: Input file must be a Jupyter notebook (.ipynb)">>)
    /\ UNCHANGED << argv, fs, paths, handles, exc, notebook, selection, loop,
                    html_output >>

\* print("Loading notebook"), then load_notebook's open(notebook_path, 'r')
OpenInput ==
    /\ pc = "validate"
    /\ exists(fs, notebook_path)
    /\ endswith_ipynb(notebook_path)
    /\ stdout' = Append(stdout, <<"Loading notebook: ">> \o notebook_path)
    /\ in_handle' = "open"
    /\ pc' = "load"
    /\ UNCHANGED << argv, fs, exit_code, stderr, paths, out_handle, exc,
                    notebook, selection, loop, html_output >>

\* json.load(f) inside the `with`
ParseInput ==
    /\ pc = "load"
    /\ IF fs[notebook_path].kind = "json"
       THEN /\ notebook' = fs[notebook_path].value
            /\ exc' = ""
       ELSE /\ exc' = "json.decoder.JSONDecodeError"
            /\ UNCHANGED notebook
    /\ pc' = "load_exit"
    /\ UNCHANGED << argv, fs, exit_code, io, paths, handles, selection, loop,
                    html_output >>

\* close_on_exit for `f = open(...); v = json.load(f); f.close()`: the
\* close is skipped when json.load raises.
close_on_exit_Leak(handle, exception) ==
    IF exception # "" THEN handle ELSE "closed"

\* What leaving load_notebook's `with` does to the file object.
close_on_exit(handle, exception) == "closed"

\* Leaving load_notebook's `with`: the file is closed, then the function
\* returns or the exception propagates out of main.
CloseInput ==
    /\ pc = "load_exit"
    /\ in_handle' = close_on_exit(in_handle, exc)
    /\ IF exc # ""
       THEN /\ Uncaught(exc)
            /\ UNCHANGED stdout
       ELSE /\ pc' = "select"
            /\ UNCHANGED << exit_code, io >>
    /\ UNCHANGED << argv, fs, paths, out_handle, exc, notebook, selection,
                    loop, html_output >>

\* print("Extracting tagged cells..."), extract_tagged_cells(notebook),
\* print(f"Found ...")
Select ==
    /\ pc = "select"
    /\ LET r == extract_tagged_cells(notebook)
           extracting == Append(stdout, <<"Extracting tagged cells...">>)
       IN  IF r.raised
           THEN /\ stdout' = extracting
                /\ Uncaught("AttributeError")
                /\ UNCHANGED selection
           ELSE /\ caption_cells' = r.caption_cells
                /\ chart_cells' = r.chart_cells
                /\ stdout' = Append(extracting,
                       << "Found ", ToString(Len(r.caption_cells)),
                          " caption cell(s) and ",
                          ToString(Len(r.chart_cells)), " chart cell(s)" >>)
                /\ pc' = "generate"
                /\ UNCHANGED << exit_code, stderr >>
    /\ UNCHANGED << argv, fs, paths, handles, exc, notebook, loop, html_output >>

\* print("Generating HTML report..."), then generate_html up to its loop
ComposeStart ==
    /\ pc = "generate"
    /\ stdout' = Append(stdout, <<"Generating HTML report...">>)
    /\ content_items' = <<>>
    /\ i' = 0
    /\ pc' = "compose"
    /\ UNCHANGED << argv, fs, exit_code, stderr, paths, handles, exc, notebook,
                    selection, image_data, html_output >>

\* One iteration of `for i in range(max_items)`
ComposeItem ==
    /\ pc = "compose"
    /\ i < max_items(caption_cells, chart_cells)
    /\ LET caption_html == caption_html_at(caption_cells, i)
           data == image_data_at(chart_cells, i)
       IN  /\ image_data' = data
           /\ IF data = ImageRaised
              THEN /\ Uncaught("TypeError")
                   /\ UNCHANGED << i, content_items >>
              ELSE /\ content_items' =
                        Append(content_items,
                               item_html(caption_html, chart_html_of(data, i)))
                   /\ i' = i + 1
                   /\ UNCHANGED << pc, exit_code, stderr >>
    /\ UNCHANGED << argv, fs, stdout, paths, handles, exc, notebook, selection,
                    html_output >>

\* return html_template.format(...)
ComposeFinish ==
    /\ pc = "compose"
    /\ i >= max_items(caption_cells, chart_cells)
    /\ html_output' = format_template(content_items)
    /\ pc' = "write_open"
    /\ UNCHANGED << argv, fs, exit_code, io, paths, handles, exc, notebook,
                    selection, loop >>

\* open(output_path, 'w'): creates or truncates the file
OpenOutput ==
    /\ pc = "write_open"
    /\ IF fs[output_path].kind = "dir"
       THEN /\ Uncaught("IsADirectoryError")
            /\ UNCHANGED << fs, out_handle >>
       ELSE /\ fs' = [fs EXCEPT ![output_path] = [kind |-> "html", html |-> <<>>]]
            /\ out_handle' = "open"
            /\ pc' = "write"
            /\ UNCHANGED << exit_code, stderr >>
    /\ UNCHANGED << argv, stdout, paths, in_handle, exc, notebook, selection,
                    loop, html_output >>

\* f.write(html_output)
WriteOutput ==
    /\ pc = "write"
    /\ fs' = [fs EXCEPT ![output_path] = [kind |-> "html", html |-> html_output]]
    /\ pc' = "write_exit"
    /\ UNCHANGED << argv, exit_code, io, paths, handles, exc, notebook,
                    selection, loop, html_output >>

\* Leaving main's `with`, print("Report generated successfully"), return
CloseOutput ==
    /\ pc = "write_exit"
    /\ out_handle' = "closed"
    /\ stdout' = Append(stdout, <<"Report generated successfully: ">> \o output_path)
    /\ exit_code' = 0
    /\ pc' = "done"
    /\ UNCHANGED << argv, fs, stderr, paths, in_handle, exc, notebook,
                    selection, loop, html_output >>

Next ==
    \/ Usage
    \/ ReadArgs
    \/ NotFound
    \/ BadExtension
    \/ OpenInput
    \/ ParseInput
    \/ CloseInput
    \/ Select
    \/ ComposeStart
    \/ ComposeItem
    \/ ComposeFinish
    \/ OpenOutput
    \/ WriteOutput
    \/ CloseOutput

Spec == Init /\ [][Next]_vars

TypeOK ==
    /\ pc \in {"start", "validate", "load", "load_exit", "select", "generate",
               "compose", "write_open", "write", "write_exit", "exited", "done"}
    /\ exit_code \in {-1, 0, 1}
    /\ in_handle \in {"unopened", "open", "closed"}
    /\ out_handle \in {"unopened", "open", "closed"}

(***************************************************************************)
(* The document as the specification describes it.                         *)
(***************************************************************************)
\* The cells of the loaded document.
DocCells == IF "cells" \in DOMAIN notebook THEN notebook.cells ELSE <<>>

HasTag(cell, tag) ==
    /\ "metadata" \in DOMAIN cell
    /\ "tags" \in DOMAIN cell.metadata
    /\ \E j \in DOMAIN cell.metadata.tags : cell.metadata.tags[j] = tag

HasType(cell, type) == "cell_type" \in DOMAIN cell /\ cell.cell_type = type

QualifiesCaption(cell) == HasType(cell, "markdown") /\ HasTag(cell, "caption")
QualifiesChart(cell) == HasType(cell, "code") /\ HasTag(cell, "chart")

\* extract_tagged_cells has returned into main's caption_cells, chart_cells.
Selected ==
    pc \in {"generate", "compose", "write_open", "write", "write_exit", "done"}

Occurs(cell, seq) == \E k \in DOMAIN seq : seq[k] = cell

\* C1: a cell is in the caption sequence iff it is a markdown cell tagged
\* 'caption', and in the chart sequence iff it is a code cell tagged 'chart';
\* also for cells with both tags and for cells of another type.
Thm_C1 ==
    Selected =>
        \A k \in DOMAIN DocCells :
            /\ Occurs(DocCells[k], caption_cells) <=> QualifiesCaption(DocCells[k])
            /\ Occurs(DocCells[k], chart_cells) <=> QualifiesChart(DocCells[k])

\* A selection over a markdown cell with both tags, a code cell with both
\* tags and a cell of no known type with both tags.
Wit_C1 ==
    /\ Selected
    /\ \E a, b, c \in DOMAIN DocCells :
        /\ HasTag(DocCells[a], "caption") /\ HasTag(DocCells[a], "chart")
        /\ HasType(DocCells[a], "markdown")
        /\ Occurs(DocCells[a], caption_cells)
        /\ HasTag(DocCells[b], "caption") /\ HasTag(DocCells[b], "chart")
        /\ HasType(DocCells[b], "code")
        /\ Occurs(DocCells[b], chart_cells)
        /\ HasTag(DocCells[c], "caption") /\ HasTag(DocCells[c], "chart")
        /\ ~HasType(DocCells[c], "markdown") /\ ~HasType(DocCells[c], "code")
        /\ ~Occurs(DocCells[c], caption_cells)
        /\ ~Occurs(DocCells[c], chart_cells)

\* C2: each returned sequence is exactly the subsequence of the document's
\* qualifying cells, in document order, one entry per qualifying occurrence.
Thm_C2 ==
    Selected =>
        /\ caption_cells = SelectSeq(DocCells, QualifiesCaption)
        /\ chart_cells = SelectSeq(DocCells, QualifiesChart)

\* A selection holding the same caption twice around a different one.
Wit_C2 ==
    /\ Selected
    /\ Len(caption_cells) = 3
    /\ caption_cells[1] = caption_cells[3]
    /\ caption_cells[1] # caption_cells[2]
    /\ Len(chart_cells) = 1

\* C8: len(captions) + len(charts) <= len(cells), with equality only if every
\* cell qualifies for exactly one category; no cell is in both sequences.
Thm_C8 ==
    Selected =>
        /\ Len(caption_cells) + Len(chart_cells) <= Len(DocCells)
        /\ Len(caption_cells) + Len(chart_cells) = Len(DocCells) =>
               \A k \in DOMAIN DocCells :
                   QualifiesCaption(DocCells[k]) # QualifiesChart(DocCells[k])
        /\ \A a \in DOMAIN caption_cells : ~Occurs(caption_cells[a], chart_cells)

\* A selection that takes every cell of a document in which cells carry
\* both tags, and one that leaves a cell out.
Wit_C8 ==
    /\ Selected
    /\ Len(DocCells) = MaxCells
    /\ Len(caption_cells) + Len(chart_cells) = Len(DocCells)
    /\ Len(caption_cells) > 0 /\ Len(chart_cells) > 0
    /\ \A k \in DOMAIN DocCells :
           HasTag(DocCells[k], "caption") /\ HasTag(DocCells[k], "chart")

\* generate_html has returned into main's html_output.
Composed == pc \in {"write_open", "write", "write_exit", "done"}

\* The outputs of a cell that carry an 'image/png' payload, by position.
PngIndexes(cell) ==
    IF "outputs" \in DOMAIN cell
    THEN { j \in DOMAIN cell.outputs :
             /\ "data" \in DOMAIN cell.outputs[j]
             /\ "image_png" \in DOMAIN cell.outputs[j].data }
    ELSE {}

\* The payload of the first output that has one, "" when none has.
FirstPayload(cell) ==
    IF PngIndexes(cell) = {}
    THEN ""
    ELSE LET first == CHOOSE j \in PngIndexes(cell) :
                          \A k \in PngIndexes(cell) : j <= k
         IN  cell.outputs[first].data.image_png

\* The concatenated source of a cell, empty when it has none.
SourceText(cell) == IF "source" \in DOMAIN cell THEN Join(cell.source) ELSE ""

\* The chart fragment the specification gives the k-th item (k from 1).
ChartFragment(cell, k) ==
    IF FirstPayload(cell) = "" THEN "" ELSE ImgTag(FirstPayload(cell), k - 1)

\* No JSON null where the document format has an object.
WellFormed(nb) ==
    /\ ~IsNone(nb)
    /\ "cells" \in DOMAIN nb =>
         \A k \in DOMAIN nb.cells :
            /\ "metadata" \in DOMAIN nb.cells[k] => ~IsNone(nb.cells[k].metadata)
            /\ "outputs" \in DOMAIN nb.cells[k] =>
                 \A j \in DOMAIN nb.cells[k].outputs :
                    "data" \in DOMAIN nb.cells[k].outputs[j] =>
                        ~IsNone(nb.cells[k].outputs[j].data)

\* C3: generate_html emits exactly N = max(len(captions), len(charts)) items,
\* in order; item k carries the rendering of the k-th caption, or an empty
\* caption fragment past the captions, and the chart of the k-th chart cell,
\* or an empty chart fragment past the charts; with no caption and no chart
\* the report is the shell alone.
Thm_C3 ==
    Composed =>
        LET N == IF Len(caption_cells) > Len(chart_cells)
                 THEN Len(caption_cells) ELSE Len(chart_cells)
        IN  /\ Len(content_items) = N
            /\ \A k \in 1..N :
                /\ k \in DOMAIN content_items
                /\ content_items[k][CaptionSlot] =
                       IF k <= Len(caption_cells)
                       THEN markdown_to_html(SourceText(caption_cells[k]))
                       ELSE ""
                /\ content_items[k][ChartSlot] =
                       IF k <= Len(chart_cells)
                       THEN ChartFragment(chart_cells[k], k)
                       ELSE ""
                /\ SubSeq(html_output, 9 * k - 7, 9 * k) = content_items[k]
            /\ Len(html_output) = IF N = 0 THEN 2 ELSE 9 * N + 1
            /\ Head(html_output) = HtmlHead
            /\ html_output[Len(html_output)] = HtmlTail
            /\ N = 0 => html_output = <<HtmlHead, HtmlTail>>

\* Three captions and one chart: three items, the last two without a chart.
Wit_C3 ==
    /\ Composed
    /\ Len(caption_cells) = 3 /\ Len(chart_cells) = 1
    /\ Len(content_items) = 3
    /\ content_items[1][ChartSlot] # ""
    /\ content_items[2][ChartSlot] = "" /\ content_items[3][ChartSlot] = ""
    /\ content_items[3][CaptionSlot] # ""

\* C4: extract_image_from_cell returns the payload of the first output, in
\* stored order, that has an 'image/png', and "" when none has; later image
\* outputs do not change the result.
Thm_C4 ==
    /\ (pc = "compose" \/ Composed) /\ i > 0 /\ i <= Len(chart_cells) =>
           image_data = FirstPayload(chart_cells[i])
    /\ WellFormed(notebook) =>
           \A k \in DOMAIN DocCells :
               HasType(DocCells[k], "code") =>
                   extract_image_from_cell(DocCells[k]) = FirstPayload(DocCells[k])

\* The loop has just taken the image of a chart cell with two image outputs.
Wit_C4 ==
    /\ pc = "compose"
    /\ i > 0 /\ i <= Len(chart_cells)
    /\ Cardinality(PngIndexes(chart_cells[i])) > 1
    /\ image_data = "AAAA"
    /\ chart_cells[i].outputs[4].data.image_png = "BBBB"

\* C9: a chart cell with no 'image/png' output gives its item an empty chart
\* fragment, the item is still emitted and its caption, if any, is rendered;
\* an <img> is in item k only when a payload was found for the k-th chart.
Thm_C9 ==
    /\ \A k \in DOMAIN content_items :
        /\ (k <= Len(chart_cells) /\ PngIndexes(chart_cells[k]) = {}) =>
               /\ content_items[k][ChartSlot] = ""
               /\ k <= Len(caption_cells) =>
                      content_items[k][CaptionSlot] =
                          markdown_to_html(SourceText(caption_cells[k]))
        /\ content_items[k][ChartSlot] # "" =>
               /\ k <= Len(chart_cells)
               /\ PngIndexes(chart_cells[k]) # {}
    /\ Composed => \A k \in DOMAIN chart_cells : k \in DOMAIN content_items

\* A finished report whose second item pairs a rendered caption with a chart
\* cell that has no image.
Wit_C9 ==
    /\ Composed
    /\ Len(chart_cells) >= 2 /\ Len(caption_cells) >= 2
    /\ PngIndexes(chart_cells[2]) = {}
    /\ content_items[2][ChartSlot] = ""
    /\ content_items[2][CaptionSlot] = "<h1>Title</h1>"
    /\ content_items[1][ChartSlot] # ""

\* C5: with 'metadata', 'metadata.tags', 'source' or 'outputs' absent,
\* selection and composition raise nothing and read the absent field as
\* empty: no metadata or no tags, in neither sequence; no source, the
\* rendering of the empty text; no outputs, an empty chart fragment.
Thm_C5 ==
    WellFormed(notebook) =>
        /\ \A k \in DOMAIN stderr :
               stderr[k][2] \in {"json.decoder.JSONDecodeError", "IsADirectoryError"}
        /\ Selected =>
               \A k \in DOMAIN DocCells :
                   ("metadata" \notin DOMAIN DocCells[k]
                        \/ "tags" \notin DOMAIN DocCells[k].metadata) =>
                       /\ ~Occurs(DocCells[k], caption_cells)
                       /\ ~Occurs(DocCells[k], chart_cells)
        /\ \A k \in DOMAIN content_items :
               /\ (k <= Len(caption_cells)
                       /\ "source" \notin DOMAIN caption_cells[k]) =>
                      content_items[k][CaptionSlot] = markdown_to_html("")
               /\ (k <= Len(chart_cells)
                       /\ "outputs" \notin DOMAIN chart_cells[k]) =>
                      content_items[k][ChartSlot] = ""

\* A finished report over a document with a cell without metadata, a cell
\* without tags, a caption without source and a chart without outputs.
Wit_C5 ==
    /\ Composed
    /\ \E a, b \in DOMAIN DocCells :
          /\ "metadata" \notin DOMAIN DocCells[a]
          /\ "metadata" \in DOMAIN DocCells[b]
          /\ "tags" \notin DOMAIN DocCells[b].metadata
    /\ Len(caption_cells) = 1 /\ "source" \notin DOMAIN caption_cells[1]
    /\ Len(chart_cells) = 1 /\ "outputs" \notin DOMAIN chart_cells[1]
    /\ Len(content_items) = 1
    /\ stderr = <<>>

(***************************************************************************)
(* The run of main                                                         *)
(***************************************************************************)
\* The file system is as it was before the run (the notebook file is never
\* written by these runs, so it tells the initial content).
FsUnchanged == \A p \in Paths : fs[p] = InitialFs(fs[NbPath].value)[p]

Printed(line) == \E k \in DOMAIN stdout : stdout[k] = line

TooFewArguments == Len(argv) < 2
NotFoundError == Len(argv) >= 2 /\ fs[argv[2]].kind = "absent"
ValidationError == Len(argv) >= 2 /\ argv[2][Len(argv[2])] # ".ipynb"
NotJson == Len(argv) >= 2 /\ fs[argv[2]].kind = "text"
BadStructure ==
    /\ Len(argv) >= 2
    /\ fs[argv[2]].kind = "json"
    /\ ~WellFormed(fs[argv[2]].value)
FormatError == NotJson \/ BadStructure

\* C6: when validation fails (no argument, input path missing, input path
\* not ending in '.ipynb') main goes no further than the validation, exits
\* with code 1 and leaves the output file as it was; exit code 0 comes only
\* after the report has been written.
Thm_C6 ==
    /\ (TooFewArguments \/ NotFoundError \/ ValidationError) =>
           /\ pc \in {"start", "validate", "exited"}
           /\ pc = "exited" => exit_code = 1
           /\ exit_code # 0
           /\ FsUnchanged
           /\ out_handle = "unopened"
    /\ exit_code = 0 =>
           /\ pc = "done"
           /\ fs[output_path] = [kind |-> "html", html |-> html_output]
           /\ Head(html_output) = HtmlHead
           /\ out_handle = "closed"

\* notebook.txt exists and holds a notebook: exit 1, out.html as it was.
Wit_C6 ==
    /\ pc = "exited"
    /\ argv = <<Program, TxtPath, OutPath>>
    /\ fs[TxtPath].kind = "json" /\ WellFormed(fs[TxtPath].value)
    /\ exit_code = 1
    /\ fs[OutPath] = OldReport
    /\ Printed(<<"Error: Input file must be a Jupyter notebook (.ipynb)">>)

\* C7 as stated: every run that ends on a NotFoundError, a FormatError or a
\* ValidationError ended before processing (the selection) started, and
\* never opened or wrote the output file.
Orig_C7 ==
    (pc = "exited" /\ (NotFoundError \/ FormatError \/ ValidationError)) =>
        /\ ~Printed(<<"Extracting tagged cells...">>)
        /\ FsUnchanged
        /\ out_handle = "unopened"

\* C7 as amended: a missing input path and a wrong extension are detected by
\* main before the notebook is opened and end the run with an "Error: ..."
\* line; content that is not JSON fails inside load_notebook, before the
\* selection starts; JSON of the wrong structure is not detected up front:
\* where it fails, it fails during selection or composition, as an uncaught
\* exception.  Each of these runs ends with exit code 1, and the output file
\* is never opened or written.
Thm_C7 ==
    /\ (NotFoundError \/ ValidationError) =>
           /\ pc \in {"start", "validate", "exited"}
           /\ in_handle = "unopened"
           /\ pc = "exited" =>
                  /\ exit_code = 1
                  /\ stderr = <<>>
                  /\ Head(stdout[Len(stdout)]) \in
                         { "Error: File not found: ",
                           "Error: Input file must be a Jupyter notebook (.ipynb)" }
    /\ (NotJson /\ ~NotFoundError /\ ~ValidationError) =>
           /\ pc \in {"start", "validate", "load", "load_exit", "exited"}
           /\ pc = "exited" =>
                  /\ exit_code = 1
                  /\ stderr = << <<"Traceback (most recent call last):",
                                   "json.decoder.JSONDecodeError">> >>
    /\ (pc = "exited" /\ stderr # <<>>
            /\ stderr[1][2] \in {"AttributeError", "TypeError"}) =>
           /\ BadStructure
           /\ Printed(<<"Extracting tagged cells...">>)
           /\ exit_code = 1
    /\ (NotFoundError \/ FormatError \/ ValidationError) =>
           /\ FsUnchanged
           /\ out_handle = "unopened"
           /\ exit_code # 0

\* A run over a document with a null 'data' that ends inside the composition,
\* after the selection returned a caption and a chart.
Wit_C7 ==
    /\ pc = "exited"
    /\ BadStructure
    /\ stderr = << <<"Traceback (most recent call last):", "TypeError">> >>
    /\ Len(caption_cells) > 0 /\ Len(chart_cells) > 0
    /\ Printed(<<"Generating HTML report...">>)
    /\ FsUnchanged

\* C10: the input handle is open only inside load_notebook and is closed
\* before selection starts, also when parsing fails; the output handle is
\* open only around the write; the two are never open together; none is
\* open when the process has terminated.
Thm_C10 ==
    /\ in_handle = "open" => pc \in {"load", "load_exit"}
    /\ out_handle = "open" => pc \in {"write", "write_exit"}
    /\ ~(in_handle = "open" /\ out_handle = "open")
    /\ pc \in {"select", "generate", "compose", "write_open", "write",
               "write_exit", "done"} => in_handle = "closed"
    /\ pc \in {"exited", "done"} => in_handle # "open" /\ out_handle # "open"
    /\ pc = "done" => in_handle = "closed" /\ out_handle = "closed"

\* The run on a file that is not JSON has ended, the input handle closed.
Wit_C10 ==
    /\ pc = "exited"
    /\ exc = "json.decoder.JSONDecodeError"
    /\ in_handle = "closed"
    /\ out_handle = "unopened"

====
